---------------------------- MODULE Spec2Model ----------------------------
(***************************************************************************)
(* Model of SimpleML_EA.mq5: a timer-driven expert advisor that fetches    *)
(* one trade instruction from a decision service, parses it with           *)
(* ParseSingleTrade, rounds its prices with NormalizeDouble and submits it *)
(* with trade.Buy / trade.Sell.                                            *)
(*                                                                         *)
(* Strings are sequences of one-character strings.  Positions are 0-based  *)
(* as in MQL5: the character at position i of s is s[i + 1].  Doubles are  *)
(* fixed-point integers with FracDigits decimals (1.5 is 150000 when       *)
(* FracDigits = 5).                                                        *)
(***************************************************************************)
EXTENDS Integers, Sequences, FiniteSets, TLC

\* ------------------------------------------------------------------ bounds
\* decimals kept by the fixed-point representation of a double
FracDigits == 5
\* timer intervals that may elapse in one run
MaxElapsed == 3
\* timer intervals that may elapse in a run fed from the wide payload set
WideElapsed == 1
\* market ticks that may arrive in one run
MaxTicks == 1
MaxProducts == 6
MaxCart == 3
MaxClicks == 4

\* ------------------------------------------------------- program constants
MagicNumber == 20250824
TradeComment == "ML_EA"
HTTP_OK == 200
IsBuyWindow == 5
VisibleCount == 3

\* ------------------------------------------------------- string primitives
RECURSIVE Pow10(_)
Pow10(n) == IF n <= 0 THEN 1 ELSE 10 * Pow10(n - 1)

Scale == Pow10(FracDigits)

MinOf(S) == CHOOSE x \in S : \A y \in S : x <= y

WhiteSpace == {" ", "\t", "\n", "\r"}

DigitChars == <<"0", "1", "2", "3", "4", "5", "6", "7", "8", "9">>

IsDigit(c) == \E d \in 1..10 : DigitChars[d] = c

DigitVal(c) == (CHOOSE d \in 1..10 : DigitChars[d] = c) - 1

\* s has the text m at 0-based position i
MatchAt(s, m, i) ==
    /\ i >= 0
    /\ i + Len(m) <= Len(s)
    /\ \A k \in 1..Len(m) : s[i + k] = m[k]

\* StringFind(s, m, start): 0-based position of the first occurrence of m in
\* s at or after start, -1 when there is none
StringFind(s, m, start) ==
    LET from == IF start < 0 THEN 0 ELSE start
        hits == {i \in from..(Len(s) - Len(m)) : MatchAt(s, m, i)}
    IN  IF hits = {} THEN -1 ELSE MinOf(hits)

\* StringSubstr(s, start, len): at most len characters from 0-based start
StringSubstr(s, start, len) ==
    LET last == IF start + len > Len(s) THEN Len(s) ELSE start + len
    IN  IF start < 0 \/ start >= Len(s) \/ len <= 0 THEN <<>>
        ELSE SubSeq(s, start + 1, last)

RECURSIVE StringTrimLeft(_)
StringTrimLeft(s) ==
    IF Len(s) > 0 /\ s[1] \in WhiteSpace THEN StringTrimLeft(Tail(s)) ELSE s

RECURSIVE StringTrimRight(_)
StringTrimRight(s) ==
    IF Len(s) > 0 /\ s[Len(s)] \in WhiteSpace
    THEN StringTrimRight(SubSeq(s, 1, Len(s) - 1)) ELSE s

\* number of leading decimal digits of s
RECURSIVE DigitRun(_)
DigitRun(s) ==
    IF Len(s) > 0 /\ IsDigit(s[1]) THEN 1 + DigitRun(Tail(s)) ELSE 0

\* value of a string of decimal digits
RECURSIVE DigitsValue(_)
DigitsValue(s) ==
    IF Len(s) = 0 THEN 0
    ELSE 10 * DigitsValue(SubSeq(s, 1, Len(s) - 1)) + DigitVal(s[Len(s)])

\* StringToDouble(t): leading white space, an optional sign, digits, an
\* optional point and digits; conversion stops at the first character that
\* fits no more, and text with no leading number converts to 0.0
StringToDouble(t) ==
    LET u == StringTrimLeft(t)
        signed == Len(u) > 0 /\ u[1] \in {"-", "+"}
        neg == Len(u) > 0 /\ u[1] = "-"
        body == IF signed THEN Tail(u) ELSE u
        nInt == DigitRun(body)
        intVal == DigitsValue(SubSeq(body, 1, nInt))
        rest == SubSeq(body, nInt + 1, Len(body))
        hasDot == Len(rest) > 0 /\ rest[1] = "."
        fracAll == IF hasDot THEN SubSeq(rest, 2, 1 + DigitRun(Tail(rest)))
                   ELSE <<>>
        frac == SubSeq(fracAll, 1,
                       IF Len(fracAll) > FracDigits THEN FracDigits
                       ELSE Len(fracAll))
        fracVal == DigitsValue(frac) * Pow10(FracDigits - Len(frac))
        mag == intVal * Scale + fracVal
    IN  IF neg THEN 0 - mag ELSE mag

\* NormalizeDouble that goes on to the next step above, from a value on a
\* step as well
NormalizeDouble_nextUnit(v, digits) ==
    LET d == IF digits < 0 THEN 0 ELSE IF digits > 8 THEN 8 ELSE digits
        unit == Pow10(FracDigits - d)
        mag == IF v < 0 THEN 0 - v ELSE v
        rounded == ((mag \div unit) + 1) * unit
    IN  IF d >= FracDigits THEN v
        ELSE IF v < 0 THEN 0 - rounded ELSE rounded

\* NormalizeDouble that rounds every remainder up
NormalizeDouble_ceiling(v, digits) ==
    LET d == IF digits < 0 THEN 0 ELSE IF digits > 8 THEN 8 ELSE digits
        unit == Pow10(FracDigits - d)
        mag == IF v < 0 THEN 0 - v ELSE v
        rounded == ((mag + (unit - 1)) \div unit) * unit
    IN  IF d >= FracDigits THEN v
        ELSE IF v < 0 THEN 0 - rounded ELSE rounded

\* NormalizeDouble(v, digits): v rounded to digits decimals, halves away
\* from zero; digits outside 0..8 are taken as the nearest of the two
NormalizeDouble(v, digits) ==
    LET d == IF digits < 0 THEN 0 ELSE IF digits > 8 THEN 8 ELSE digits
        unit == Pow10(FracDigits - d)
        mag == IF v < 0 THEN 0 - v ELSE v
        rounded == ((mag + (unit \div 2)) \div unit) * unit
    IN  IF d >= FracDigits THEN v
        ELSE IF v < 0 THEN 0 - rounded ELSE rounded

\* ------------------------------------------------------------ ParseSingleTrade
KeySymbol == <<"\"", "s", "y", "m", "b", "o", "l", "\"", ":">>
KeyEntry == <<"\"", "e", "n", "t", "r", "y", "_", "p", "r", "i", "c", "e", "\"", ":">>
KeySl == <<"\"", "s", "l", "_", "p", "r", "i", "c", "e", "\"", ":">>
KeyTp == <<"\"", "t", "p", "_", "p", "r", "i", "c", "e", "\"", ":">>
KeyLot == <<"\"", "l", "o", "t", "_", "s", "i", "z", "e", "\"", ":">>
KeyIsBuy == <<"\"", "i", "s", "_", "b", "u", "y", "\"", ":">>
TrueToken == <<"t", "r", "u", "e">>

\* the six keys in the declared order
KeySeq == << KeySymbol, KeyEntry, KeySl, KeyTp, KeyLot, KeyIsBuy >>

\* outputs of a parse that returned false: never read by the caller
NoTrade ==
    [ok |-> FALSE, symbol |-> <<>>, entry |-> 0, sl |-> 0, tp |-> 0,
     lot |-> 0, isBuy |-> FALSE]

NumFail(e) == [ok |-> FALSE, e |-> e, val |-> 0]

\* NumBetween that takes one character too few
NumBetween_shortByOne(json, s, e) ==
    IF e < 0 \/ e <= s THEN NumFail(e)
    ELSE [ok |-> TRUE, e |-> e,
          val |-> StringToDouble(
                      StringTrimRight(StringTrimLeft(StringSubstr(json, s, e - s - 1))))]

\* NumBetween without its test for a missing terminator
NumBetween_noEndCheck(json, s, e) ==
    IF e >= 0 /\ e <= s THEN NumFail(e)
    ELSE [ok |-> TRUE, e |-> e,
          val |-> StringToDouble(
                      StringTrimRight(StringTrimLeft(StringSubstr(json, s, e - s))))]

\* lines 54-57: the text from s up to e, trimmed and converted
NumBetween(json, s, e) ==
    IF e < 0 \/ e <= s THEN NumFail(e)
    ELSE [ok |-> TRUE, e |-> e,
          val |-> StringToDouble(
                      StringTrimRight(StringTrimLeft(StringSubstr(json, s, e - s))))]

\* lines 52-53: the next comma from s or, with no comma left, the next
\* closing brace
ValueEnd(json, s) ==
    IF StringFind(json, <<",">>, s) < 0 THEN StringFind(json, <<"}">>, s)
    ELSE StringFind(json, <<",">>, s)

\* line 51 onwards, s being the position after the key's colon
NumFrom(json, s) ==
    IF s <= 0 THEN NumFail(-1) ELSE NumBetween(json, s, ValueEnd(json, s))

\* NumAt without its test of the key's position
NumAt_keyUnchecked(json, pos) == NumFrom(json, StringFind(json, <<":">>, pos) + 1)

\* lines 49-50 onwards, pos being the key's position
NumAt(json, pos) ==
    IF pos < 0 THEN NumFail(-1)
    ELSE NumFrom(json, StringFind(json, <<":">>, pos) + 1)

\* NumField that looks for its key from the start of the text
NumField_fromStart(json, key, from) == NumAt(json, StringFind(json, key, 0))

\* the block repeated for entry_price, sl_price, tp_price and lot_size: find
\* the key from position from, take the text between its colon and the next
\* comma (or closing brace), trim and convert
NumField(json, key, from) == NumAt(json, StringFind(json, key, from))

SymFail(e) == [ok |-> FALSE, e |-> e, val |-> <<>>]

\* SymbolBetween that lets an empty instrument through
SymbolBetween_emptyAllowed(json, s, e) ==
    IF e < 0 \/ e < s THEN SymFail(e)
    ELSE [ok |-> TRUE, e |-> e, val |-> StringSubstr(json, s, e - s)]

\* lines 44-46, s being the position after the opening quote
SymbolBetween(json, s, e) ==
    IF e < 0 \/ e <= s THEN SymFail(e)
    ELSE [ok |-> TRUE, e |-> e, val |-> StringSubstr(json, s, e - s)]

\* lines 42-44, q being the position of the opening quote
SymbolFrom(json, q) ==
    IF q < 0 THEN SymFail(-1)
    ELSE SymbolBetween(json, q + 1, StringFind(json, <<"\"">>, q + 1))

\* lines 40-41, pos being the key's position
SymbolAt(json, pos) ==
    IF pos < 0 THEN SymFail(-1)
    ELSE SymbolFrom(json, StringFind(json, <<"\"">>, pos + 9))

\* the symbol block: the text between the first two double quotes after the key
SymbolField(json, start_pos) ==
    SymbolAt(json, StringFind(json, KeySymbol, start_pos))

\* IsBuyFrom that takes everything but false for a buy
IsBuyFrom_unlessFalse(json, s) ==
    IF s <= 0 THEN [ok |-> FALSE, val |-> FALSE]
    ELSE [ok |-> TRUE,
          val |-> StringFind(
                      StringTrimRight(StringTrimLeft(
                          StringSubstr(json, s, IsBuyWindow))),
                      <<"f", "a", "l", "s", "e">>, 0) < 0]

\* lines 95-98, s being the position after the key's colon: the five
\* characters from s, trimmed, are searched for the token true
IsBuyFrom(json, s) ==
    IF s <= 0 THEN [ok |-> FALSE, val |-> FALSE]
    ELSE [ok |-> TRUE,
          val |-> StringFind(
                      StringTrimRight(StringTrimLeft(
                          StringSubstr(json, s, IsBuyWindow))),
                      TrueToken, 0) >= 0]

\* lines 93-94, pos being the key's position
IsBuyAt(json, pos) ==
    IF pos < 0 THEN [ok |-> FALSE, val |-> FALSE]
    ELSE IsBuyFrom(json, StringFind(json, <<":">>, pos) + 1)

\* the is_buy block
IsBuyField(json, from) == IsBuyAt(json, StringFind(json, KeyIsBuy, from))

\* line 100, every block having passed
ParsedIsBuy(symbol, entry, sl, tp, lot, fBuy) ==
    IF ~fBuy.ok THEN NoTrade
    ELSE [ok |-> TRUE, symbol |-> symbol, entry |-> entry, sl |-> sl,
          tp |-> tp, lot |-> lot, isBuy |-> fBuy.val]

\* lines 81-98
ParsedLot(json, symbol, entry, sl, tp, fLot) ==
    IF ~fLot.ok THEN NoTrade
    ELSE ParsedIsBuy(symbol, entry, sl, tp, fLot.val, IsBuyField(json, fLot.e))

\* lines 70-98
ParsedTp(json, symbol, entry, sl, fTp) ==
    IF ~fTp.ok THEN NoTrade
    ELSE ParsedLot(json, symbol, entry, sl, fTp.val, NumField(json, KeyLot, fTp.e))

\* lines 59-98
ParsedSl(json, symbol, entry, fSl) ==
    IF ~fSl.ok THEN NoTrade
    ELSE ParsedTp(json, symbol, entry, fSl.val, NumField(json, KeyTp, fSl.e))

\* lines 48-98
ParsedEntry(json, symbol, fEntry) ==
    IF ~fEntry.ok THEN NoTrade
    ELSE ParsedSl(json, symbol, fEntry.val, NumField(json, KeySl, fEntry.e))

\* lines 39-98
ParsedSymbol(json, fSym) ==
    IF ~fSym.ok THEN NoTrade
    ELSE ParsedEntry(json, fSym.val, NumField(json, KeyEntry, fSym.e))

ParseSingleTrade(json, start_pos) ==
    ParsedSymbol(json, SymbolField(json, start_pos))

\* ------------------------------------------------------------------ the venue
EURUSD == <<"E", "U", "R", "U", "S", "D">>
XAUUSD == <<"X", "A", "U", "U", "S", "D">>
NOSYM == <<"N", "O", "S", "Y", "M">>

\* price precision of the instruments the venue knows
VenueDigits == (EURUSD :> 5) @@ (XAUUSD :> 2)

\* SymbolInfoInteger(symbol, SYMBOL_DIGITS) in its value-returning form: the
\* property's value, or 0 when the symbol is unknown to the venue
SymbolInfoInteger(symbol) ==
    IF symbol \in DOMAIN VenueDigits THEN VenueDigits[symbol] ELSE 0

\* ------------------------------------------------- decision-service payloads
RECURSIVE Join(_)
Join(pieces) ==
    IF Len(pieces) = 0 THEN <<>>
    ELSE IF Len(pieces) = 1 THEN pieces[1]
    ELSE pieces[1] \o <<",">> \o Join(Tail(pieces))

Obj(pieces) == <<"{">> \o Join(pieces) \o <<"}">>

Quoted(text) == <<"\"">> \o text \o <<"\"">>

\* the pieces of one object, in the declared order
Pieces(sym, entry, sl, tp, lot, buy) ==
    << KeySymbol \o Quoted(sym), KeyEntry \o entry, KeySl \o sl,
       KeyTp \o tp, KeyLot \o lot, KeyIsBuy \o buy >>

\* pieces without the k-th
Without(pieces, k) ==
    SubSeq(pieces, 1, k - 1) \o SubSeq(pieces, k + 1, Len(pieces))

TxtEntry == <<"1", ".", "2", "3", "4", "5", "6">>
TxtSl == <<"1", ".", "2">>
TxtTp == <<"1", ".", "3">>
TxtLot == <<"0", ".", "1">>
TxtZero == <<"0">>
TxtNegLot == <<"-", "0", ".", "1">>
TxtTrue == <<"t", "r", "u", "e">>
TxtFalse == <<"f", "a", "l", "s", "e">>
TxtError == <<"e", "r", "r", "o", "r">>

BasePieces(buy) == Pieces(EURUSD, TxtEntry, TxtSl, TxtTp, TxtLot, buy)

ValidBuy == Obj(BasePieces(TxtTrue))
ValidSell == Obj(BasePieces(TxtFalse))

\* well-formed objects over the instruments, sizes and directions
WellFormed ==
    { Obj(Pieces(sym, TxtEntry, TxtSl, TxtTp, lot, buy)) :
        sym \in {EURUSD, XAUUSD, NOSYM},
        lot \in {TxtLot, TxtZero, TxtNegLot},
        buy \in {TxtTrue, TxtFalse} }

\* objects that lack one of the six keys
MissingKey ==
    { Obj(Without(BasePieces(buy), k)) : k \in 1..6, buy \in {TxtTrue, TxtFalse} }

\* bodies with no object at all
NoObject == { TxtError, <<>> }

CoreFeed ==
    { ValidBuy, ValidSell,
      Obj(Pieces(NOSYM, TxtEntry, TxtSl, TxtTp, TxtLot, TxtTrue)),
      Obj(Pieces(XAUUSD, TxtEntry, TxtSl, TxtTp, TxtZero, TxtFalse)),
      Obj(Without(BasePieces(TxtTrue), 5)),
      TxtError }

WideFeed == WellFormed \cup MissingKey \cup NoObject

\* ------------------------------------------------ payloads built from trades
\* the decimal digits of a natural number
RECURSIVE DigitsOf(_)
DigitsOf(n) ==
    IF n < 10 THEN << DigitChars[n + 1] >>
    ELSE DigitsOf(n \div 10) \o << DigitChars[(n % 10) + 1] >>

\* the digits of f in width places, zeros in front
RECURSIVE Padded(_, _)
Padded(f, width) ==
    IF width <= 0 THEN <<>>
    ELSE Padded(f \div 10, width - 1) \o << DigitChars[(f % 10) + 1] >>

\* a fraction without the zeros at its end, but for one place
RECURSIVE StripZeros(_)
StripZeros(s) ==
    IF Len(s) > 1 /\ s[Len(s)] = "0" THEN StripZeros(SubSeq(s, 1, Len(s) - 1))
    ELSE s

FracText(f, width) == StripZeros(Padded(f, width))

\* a double written as a JSON number: sign, integer part, point, fraction
FormatMagnitude(m) ==
    DigitsOf(m \div Scale) \o
    (IF FracDigits = 0 THEN <<>> ELSE <<".">> \o FracText(m % Scale, FracDigits))

FormatDouble(v) ==
    IF v < 0 THEN <<"-">> \o FormatMagnitude(0 - v) ELSE FormatMagnitude(v)

FormatBool(b) == IF b THEN TxtTrue ELSE TxtFalse

RECURSIVE JoinWith(_, _)
JoinWith(pieces, sep) ==
    IF Len(pieces) = 0 THEN <<>>
    ELSE IF Len(pieces) = 1 THEN pieces[1]
    ELSE pieces[1] \o sep \o JoinWith(Tail(pieces), sep)

\* the two ways a serializer separates items and keys from values
Compact == [item |-> <<",">>, value |-> <<>>]
Spaced == [item |-> <<",", " ">>, value |-> <<" ">>]

\* the object a serializer writes for a trade, its fields in the declared order
BuildPayload(ins, style) ==
    <<"{">> \o
    JoinWith(<< KeySymbol \o style.value \o Quoted(ins.symbol),
                KeyEntry \o style.value \o FormatDouble(ins.entry),
                KeySl \o style.value \o FormatDouble(ins.sl),
                KeyTp \o style.value \o FormatDouble(ins.tp),
                KeyLot \o style.value \o FormatDouble(ins.lot),
                KeyIsBuy \o style.value \o FormatBool(ins.isBuy) >>,
             style.item) \o
    <<"}">>

\* n hundred-thousandths as a value of the model
Micro(n) == n * Pow10(FracDigits - 5)

\* the trades the decision service may instruct, in units of 1 / Scale
Instructions ==
    { [symbol |-> sym, entry |-> Micro(pr[1]), sl |-> Micro(pr[2]),
       tp |-> Micro(pr[3]), lot |-> Micro(lot), isBuy |-> b] :
        sym \in {EURUSD, XAUUSD, NOSYM},
        pr \in { <<123456, 120000, 130000>>, <<123500, 5, 0 - 234567>> },
        lot \in {10000, 12345, 0, 0 - 10000},
        b \in BOOLEAN }

\* each instruction with each of its payloads
RoundTrips ==
    { << ins, BuildPayload(ins, style) >> :
        ins \in Instructions, style \in {Compact, Spaced} }

BuiltPayloads == { rt[2] : rt \in RoundTrips }

\* one raw entry price for an instrument of 2 decimals and for one of 5
RepeatFeed ==
    { Obj(Pieces(XAUUSD, TxtEntry, TxtSl, TxtTp, TxtLot, TxtTrue)), ValidBuy }

\* prices around the steps of 0, 2 and 5 decimals, in hundred-thousandths
PriceGrid ==
    { 0, 1, 4, 5, 6, 49, 50, 51, 449, 450, 499, 500, 501, 994, 995, 999, 1000,
      49999, 50000, 99499, 99500, 99999, 100000, 123449, 123450, 123456,
      123499, 123500, 123501, 150000 }

\* a buy at each price of the grid, its stop-loss the same price below zero
RoundInstructions ==
    { [symbol |-> sym, entry |-> Micro(p), sl |-> Micro(0 - p),
       tp |-> Micro(p + 50), lot |-> Micro(10000), isBuy |-> TRUE] :
        sym \in {EURUSD, XAUUSD, NOSYM}, p \in PriceGrid }

RoundFeed == { BuildPayload(ins, Compact) : ins \in RoundInstructions }

\* what WebRequest may return: a status and a body
Responses(feed) ==
    ({HTTP_OK} \X feed) \cup ({404} \X {ValidBuy, TxtError}) \cup {<<-1, <<>>>>}

\* the base object with its six fields in every order but the declared one
Reordered ==
    { Obj([i \in 1..6 |-> BasePieces(TxtTrue)[perm[i]]]) :
        perm \in { q \in Permutations(1..6) : \E i \in 1..6 : q[i] # i } }

\* the base object cut right after the key of its k-th field
CutAfterKey(k) ==
    <<"{">> \o
    JoinWith(SubSeq(BasePieces(TxtTrue), 1, k - 1) \o
             << SubSeq(BasePieces(TxtTrue)[k], 1, Len(KeySeq[k])) >>, <<",">>)

\* beginnings of a value that the cut leaves without its end
CutValues(k) ==
    IF k = 1 THEN { <<>>, <<"\"">>, <<"\"", "E", "U", "R">> }
    ELSE IF k = 6 THEN { <<>>, <<"t", "r">>, TxtTrue, TxtFalse }
    ELSE { <<>>, <<"1">>, <<"1", ".", "2">>, <<" ">> }

\* the base object cut after the key of its k-th field or inside that value
Truncated(k) == { CutAfterKey(k) \o v : v \in CutValues(k) }

\* the six fields in order with blanks for commas and no closing brace
Unseparated == <<"{">> \o JoinWith(BasePieces(TxtTrue), <<" ">>)

\* texts that are no decimal numbers: letters, a blank, nothing
TxtAbc == <<"a", "b", "c">>
TxtBlank == <<" ">>
TxtNone == <<>>

\* the base object with the text of its k-th field replaced by v
WithValue(k, v) ==
    Obj([BasePieces(TxtTrue) EXCEPT ![k] = KeySeq[k] \o v])

\* the base object with one numeric field that is no number
NonNumeric ==
    { WithValue(k, v) : k \in 2..5, v \in {TxtAbc, TxtBlank, TxtNone} }

\* direction texts without the lowercase token true
SellTexts ==
    { TxtFalse, <<"T", "R", "U", "E">>, <<"T", "r", "u", "e">>, <<>>, <<" ">>,
      <<"n", "u", "l", "l">>, <<"0">>, <<"t", "r", "u">>, <<"t", " ", "r", "u", "e">> }

\* the token true behind blanks, in quotes, or both
TrueTexts ==
    { TxtTrue, <<" ">> \o TxtTrue, <<" ", " ">> \o TxtTrue,
      <<" ", " ", " ">> \o TxtTrue, TxtTrue \o <<" ">>, Quoted(TxtTrue),
      <<" ">> \o Quoted(TxtTrue) }

\* the base object with each of these direction texts
Directions == { WithValue(6, v) : v \in SellTexts \cup TrueTexts }

Unterminated == UNION { Truncated(k) : k \in 1..6 } \cup { Unseparated }

\* instrument texts: none, blanks around, lower case, a blank alone
SymbolTexts ==
    { <<>>, <<" ", "E", "U", "R", " ">>, <<"e", "u", "r", "u", "s", "d">>,
      <<" ">>, <<"E", "U", "R", ".", "m">>, EURUSD }

\* the base object with each of these instruments, the colon followed by a
\* blank or not
Instruments ==
    { WithValue(1, lead \o Quoted(x)) : x \in SymbolTexts, lead \in {<<>>, <<" ">>} }

\* a sell of XAUUSD at other prices, as the second object of a payload
OtherPieces ==
    Pieces(XAUUSD, <<"1", ".", "1">>, <<"1", ".", "0">>, <<"0", ".", "9">>,
           <<"0", ".", "5">>, TxtFalse)

\* payloads of two objects: the first with its first k fields only, or whole
SeveralObjects ==
    { <<"[">> \o Obj(SubSeq(BasePieces(TxtTrue), 1, k)) \o <<",">>
             \o Obj(OtherPieces) \o <<"]">> : k \in 1..6 }

\* the bodies the parser is tried on
ParseFeed == WideFeed \cup BuiltPayloads \cup Unterminated
             \cup NonNumeric \cup Directions \cup SeveralObjects
             \cup Instruments

\* the base object in its own order and in every other
OrderFeed == Reordered \cup {ValidBuy, ValidSell}

\* ---------------------------------------------------------------- the state
VARIABLES
    phase,          \* "loaded" before OnInit, "running" after it, "stopped" after OnDeinit
    m_magic,        \* trade.m_magic, the tag CTrade puts on its requests
    timerArmed,     \* EventSetTimer called and EventKillTimer not yet
    timerPending,   \* a Timer event waits in the program's event queue
    active,         \* OnTimer invocations in progress
    pc,             \* where the program's thread is: "idle", "WebRequest", "trade"
    cur,            \* the cycle in progress: response received and calls made so far
    history,        \* the completed cycles, oldest first
    journal,        \* the lines printed so far
    elapsed,        \* timer intervals elapsed so far
    dropped,        \* where the thread was at each interval that produced no Timer event
    ticks,          \* market ticks received so far
    feed,           \* the bodies the decision service may serve in this run
    limit,          \* timer intervals this run may see
    venueUp,        \* the terminal has its connection to the trade server in this run
    cart,           \* CartProvider's cart
    open,           \* CartProvider's open: the sidebar is shown
    route,          \* the page the router is on
    added,          \* the products passed to addToCart so far, in call order
    scrollIndex,    \* FeaturedProductsCarousel's scrollIndex
    products,       \* products.length of the carousel
    clicks          \* the clicks on the carousel's two buttons so far

\* the storefront's part of the state
shopVars == << cart, open, route, added, scrollIndex, products, clicks >>

\* the expert advisor's part of the state
eaVars == << phase, m_magic, timerArmed, timerPending, active, pc, cur, history,
            journal, elapsed, dropped, ticks, feed, limit, venueUp >>

\* what the expert advisor's handlers never touch
apart == << venueUp, shopVars >>

vars == << phase, m_magic, timerArmed, timerPending, active, pc, cur, history,
           journal, elapsed, dropped, ticks, feed, limit, venueUp, cart, open,
           route, added, scrollIndex, products, clicks >>

NoCycle == [status |-> 0, json |-> <<>>, trade |-> NoTrade, trace |-> <<>>]

\* ------------------------------------------------------------ OnTimer's body
EvWebRequest == [op |-> "WebRequest", method |-> "GET", timeout |-> 2000]

EvParse(ok) == [op |-> "ParseSingleTrade", ok |-> ok]

EvDigits(symbol, digits) ==
    [op |-> "SymbolInfoInteger", symbol |-> symbol, digits |-> digits]

EvNormalize(digits) == [op |-> "NormalizeDouble", digits |-> digits]

\* the arguments of trade.Buy / trade.Sell, with the size scaled by the
\* number of cycles run before
EvSubmit_carry(t, magic) ==
    [op |-> IF t.isBuy THEN "Buy" ELSE "Sell",
     lot |-> t.lot * (1 + Len(history)),
     symbol |-> t.symbol, entry |-> t.entry, sl |-> t.sl, tp |-> t.tp,
     comment |-> TradeComment, magic |-> magic]

\* EvSubmit with the stop-loss and the take-profit exchanged
EvSubmit_slTpSwapped(t, magic) ==
    [op |-> IF t.isBuy THEN "Buy" ELSE "Sell", lot |-> t.lot,
     symbol |-> t.symbol, entry |-> t.entry, sl |-> t.tp, tp |-> t.sl,
     comment |-> TradeComment, magic |-> magic]

\* lines 128-131: Buy for a buy signal, Sell otherwise
EvSubmit(t, magic) ==
    [op |-> IF t.isBuy THEN "Buy" ELSE "Sell", lot |-> t.lot,
     symbol |-> t.symbol, entry |-> t.entry, sl |-> t.sl, tp |-> t.tp,
     comment |-> TradeComment, magic |-> magic]

\* line 133
EvPrint(t, placed) ==
    [op |-> "Print", symbol |-> t.symbol,
     side |-> IF t.isBuy THEN "BUY" ELSE "SELL", lot |-> t.lot,
     entry |-> t.entry, sl |-> t.sl, tp |-> t.tp, placed |-> placed]

\* Normalized that rounds the size as well
Normalized_lotToo(t, digits) ==
    [t EXCEPT !.entry = NormalizeDouble(t.entry, digits),
              !.sl = NormalizeDouble(t.sl, digits),
              !.tp = NormalizeDouble(t.tp, digits),
              !.lot = NormalizeDouble(t.lot, digits)]

\* lines 122-125: the parsed trade with its three prices rounded
Normalized(t, digits) ==
    [t EXCEPT !.entry = NormalizeDouble(t.entry, digits),
              !.sl = NormalizeDouble(t.sl, digits),
              !.tp = NormalizeDouble(t.tp, digits)]

Skipped(trace) == [trade |-> NoTrade, trace |-> trace]

\* the submission with its else lost: a buy signal is bought and then sold
SubmitCalls_noElse(n, magic) ==
    IF n.isBuy
    THEN << EvSubmit(n, magic), EvSubmit([n EXCEPT !.isBuy = FALSE], magic) >>
    ELSE << EvSubmit(n, magic) >>

\* lines 127-131: one call, trade.Buy or trade.Sell
SubmitCalls(n, magic) == << EvSubmit(n, magic) >>

\* lines 123-131, digits being the result of the lookup
Submitted(t, digits, n, magic) ==
    [trade |-> n,
     trace |-> << EvParse(TRUE), EvDigits(t.symbol, digits),
                  EvNormalize(digits) >> \o SubmitCalls(n, magic)]

Rounded(t, digits, magic) == Submitted(t, digits, Normalized(t, digits), magic)

\* Execute that skips an instrument an earlier cycle already traded
Execute_dedup(t, magic) ==
    IF \E i \in 1..Len(history) : \E k \in 1..Len(history[i].trace) :
          /\ history[i].trace[k].op \in {"Buy", "Sell"}
          /\ history[i].trace[k].symbol = t.symbol
    THEN Skipped(<< EvParse(TRUE) >>)
    ELSE Rounded(t, SymbolInfoInteger(t.symbol), magic)

\* Execute that refuses an unknown instrument and a size that is not positive
Execute_checked(t, magic) ==
    IF SymbolInfoInteger(t.symbol) = 0 \/ t.lot <= 0
    THEN Skipped(<< EvParse(TRUE) >>)
    ELSE Rounded(t, SymbolInfoInteger(t.symbol), magic)

\* lines 122-131: what OnTimer does with a trade that parsed
Execute(t, magic) == Rounded(t, SymbolInfoInteger(t.symbol), magic)

\* Parsed that gives up for good once a cycle has failed
Parsed_latched(t, magic) ==
    IF ~t.ok THEN Skipped(<< EvParse(FALSE) >>)
    ELSE IF \E i \in 1..Len(history) : history[i].placed # << TRUE >>
         THEN Skipped(<< EvParse(TRUE) >>)
         ELSE Execute(t, magic)

\* lines 119-131, t being the result of the parse
Parsed(t, magic) ==
    IF ~t.ok THEN Skipped(<< EvParse(FALSE) >>) ELSE Execute(t, magic)

\* lines 114-131, pos being the position of the first opening brace
ObjectAt(json, pos, magic) ==
    IF pos < 0 THEN Skipped(<<>>)
    ELSE Parsed(ParseSingleTrade(json, pos), magic)

\* lines 112-131: what OnTimer does with the body of a 200 response
Pipeline(json, magic) == ObjectAt(json, StringFind(json, <<"{">>, 0), magic)

\* AfterFetch that takes only a failed request (-1) for a failure
AfterFetch_anyStatus(status, json, magic) ==
    IF status < 0 THEN Skipped(<<>>) ELSE Pipeline(json, magic)

\* lines 109-131: the calls OnTimer makes once WebRequest has returned, up to
\* its return or up to the submission it then waits in
AfterFetch(status, json, magic) ==
    IF status # HTTP_OK THEN Skipped(<<>>) ELSE Pipeline(json, magic)

IsSubmit(ev) == ev.op \in {"Buy", "Sell"}

Last(s) == s[Len(s)]

\* the submission a trace ends in
Waiting(trace) == Len(trace) > 0 /\ IsSubmit(Last(trace))

\* ------------------------------------------------------- the event dispatcher
\* a thread that can take an event whatever it is doing
ThreadIdle_reentrant == TRUE

\* the program has one thread; it is idle when no handler is running
ThreadIdle == active = 0

\* a Timer event that is queued while one is being handled
AcceptsTimerEvent_queued == ~timerPending

\* a Timer event is added only when none is queued or being handled
AcceptsTimerEvent == ~timerPending /\ ThreadIdle

\* the next Timer event is handed to the thread only when it is idle
CanDispatchTimer == phase = "running" /\ timerPending /\ ThreadIdle

\* --------------------------------------------------------------------- Init
\* the storefront before any click, with no product in the carousel
ShopAtRest ==
    /\ cart = <<>>
    /\ open = FALSE
    /\ route = "/"
    /\ added = <<>>
    /\ scrollIndex = 0
    /\ clicks = <<>>

\* the expert advisor loaded on a terminal that is connected (up) or not
EaLoaded(f, l, up) ==
    /\ phase = "loaded"
    /\ m_magic = 0
    /\ timerArmed = FALSE
    /\ timerPending = FALSE
    /\ active = 0
    /\ pc = "idle"
    /\ cur = NoCycle
    /\ history = <<>>
    /\ journal = <<>>
    /\ elapsed = 0
    /\ dropped = <<>>
    /\ ticks = 0
    /\ feed = f
    /\ limit = l
    /\ venueUp = up

InitRun(f, l, up) == EaLoaded(f, l, up) /\ ShopAtRest /\ products = 0

InitWith(f, l) == InitRun(f, l, TRUE)

Init == InitWith(CoreFeed, MaxElapsed)

InitWide == InitWith(WideFeed, WideElapsed)

\* a run whose decision service serves one body of the parser's test set
InitParse == \E body \in ParseFeed : InitWith({body}, WideElapsed)

\* a run whose decision service serves the base object in one order
InitOrder == \E body \in OrderFeed : InitWith({body}, WideElapsed)

\* a run of several cycles on the same raw entry price
InitRepeat == InitWith(RepeatFeed, MaxElapsed)

\* a run whose decision service serves one price of the grid
InitRound == \E body \in RoundFeed : InitWith({body}, WideElapsed)

\* a run on a terminal that has its connection to the trade server or not
InitStart == \E up \in BOOLEAN : InitRun({ValidBuy, TxtError}, MaxElapsed, up)

\* the storefront opened with some number of featured products
InitShop ==
    /\ EaLoaded({}, 0, TRUE)
    /\ ShopAtRest
    /\ products \in 0..MaxProducts

\* ------------------------------------------------------------------ actions
OnInit ==
    /\ phase = "loaded"
    /\ m_magic' = MagicNumber
    /\ timerArmed' = TRUE
    /\ journal' = Append(journal, [op |-> "Print", text |-> "SimpleML_EA initialized."])
    /\ phase' = "running"
    /\ UNCHANGED << timerPending, active, pc, cur, history, elapsed, dropped,
                    ticks, feed, limit >>
    /\ UNCHANGED apart

\* OnDeinit without its EventKillTimer
OnDeinit_timerLeftArmed ==
    /\ phase = "running"
    /\ ThreadIdle
    /\ journal' = Append(journal, [op |-> "Print", text |-> "SimpleML_EA stopped."])
    /\ phase' = "stopped"
    /\ UNCHANGED << m_magic, timerArmed, timerPending, active, pc, cur, history,
                    elapsed, dropped, ticks, feed, limit >>
    /\ UNCHANGED apart

OnDeinit ==
    /\ phase = "running"
    /\ ThreadIdle
    /\ timerArmed' = FALSE
    /\ journal' = Append(journal, [op |-> "Print", text |-> "SimpleML_EA stopped."])
    /\ phase' = "stopped"
    /\ UNCHANGED << m_magic, timerPending, active, pc, cur, history, elapsed,
                    dropped, ticks, feed, limit >>
    /\ UNCHANGED apart

\* OnTick that asks for a cycle of its own
OnTick_polls ==
    /\ phase = "running"
    /\ ThreadIdle
    /\ ticks < MaxTicks
    /\ ticks' = ticks + 1
    /\ timerPending' = TRUE
    /\ UNCHANGED << phase, m_magic, timerArmed, active, pc, cur,
                    history, journal, elapsed, dropped, feed, limit >>
    /\ UNCHANGED apart

OnTick ==
    /\ phase = "running"
    /\ ThreadIdle
    /\ ticks < MaxTicks
    /\ ticks' = ticks + 1
    /\ UNCHANGED << phase, m_magic, timerArmed, timerPending, active, pc, cur,
                    history, journal, elapsed, dropped, feed, limit >>
    /\ UNCHANGED apart

\* the timer's interval elapses
TimerElapse ==
    /\ timerArmed
    /\ elapsed < limit
    /\ elapsed' = elapsed + 1
    /\ IF AcceptsTimerEvent
       THEN timerPending' = TRUE /\ dropped' = dropped
       ELSE timerPending' = timerPending /\ dropped' = Append(dropped, pc)
    /\ UNCHANGED << phase, m_magic, timerArmed, active, pc, cur, history,
                    journal, ticks, feed, limit >>
    /\ UNCHANGED apart

\* the end of an OnTimer invocation; placed is the answer of trade.Buy/Sell
\* when the cycle called it, as a sequence of one element
Return(c, placed) ==
    /\ pc' = "idle"
    /\ active' = active - 1
    /\ cur' = NoCycle
    /\ history' = Append(history, [status |-> c.status, json |-> c.json,
                                   placed |-> placed, trace |-> c.trace])

\* OnTimer is entered and issues its WebRequest
OnTimerBegin ==
    /\ CanDispatchTimer
    /\ timerPending' = FALSE
    /\ active' = active + 1
    /\ pc' = "WebRequest"
    /\ cur' = [NoCycle EXCEPT !.trace = << EvWebRequest >>]
    /\ UNCHANGED << phase, m_magic, timerArmed, history, journal, elapsed,
                    dropped, ticks, feed, limit >>
    /\ UNCHANGED apart

\* WebRequest returns; OnTimer runs on to its return or into trade.Buy/Sell
OnTimerFetched ==
    /\ pc = "WebRequest"
    /\ \E r \in Responses(feed) :
         \E body \in {AfterFetch(r[1], r[2], m_magic)} :
            \E c \in {[status |-> r[1], json |-> r[2], trade |-> body.trade,
                        trace |-> cur.trace \o body.trace]} :
                IF Waiting(c.trace)
                THEN /\ pc' = "trade"
                     /\ cur' = c
                     /\ UNCHANGED << active, history >>
                ELSE Return(c, <<>>)
    /\ UNCHANGED << phase, m_magic, timerArmed, timerPending, journal,
                    elapsed, dropped, ticks, feed, limit >>
    /\ UNCHANGED apart

\* what trade.Buy/Sell may answer: without a connection the request fails
Answers(up) == IF up THEN BOOLEAN ELSE {FALSE}

\* trade.Buy/Sell returns; OnTimer prints its line and returns
OnTimerPlaced ==
    /\ pc = "trade"
    /\ \E placed \in Answers(venueUp) :
         \E line \in {EvPrint(cur.trade, placed)} :
            /\ Return([cur EXCEPT !.trace = Append(cur.trace, line)], << placed >>)
            /\ journal' = Append(journal, line)
    /\ UNCHANGED << phase, m_magic, timerArmed, timerPending, elapsed,
                    dropped, ticks, feed, limit >>
    /\ UNCHANGED apart

Next ==
    \/ OnInit
    \/ OnDeinit
    \/ OnTick
    \/ TimerElapse
    \/ OnTimerBegin
    \/ OnTimerFetched
    \/ OnTimerPlaced

Spec == Init /\ [][Next]_vars

SpecWide == InitWide /\ [][Next]_vars

SpecParse == InitParse /\ [][Next]_vars

SpecRound == InitRound /\ [][Next]_vars

SpecOrder == InitOrder /\ [][Next]_vars

SpecRepeat == InitRepeat /\ [][Next]_vars

SpecStart == InitStart /\ [][Next]_vars

\* ------------------------------------------------------------- the storefront
\* what the page may put in the cart
Catalog ==
    { [name |-> "Ultimate Social Media Design System", price |-> 799],
      [name |-> "Business Proposal Power Pack", price |-> 599] }

\* addToCart that leaves out a product the cart already has
Added_noDuplicates(prev, product) ==
    IF \E i \in 1..Len(prev) : prev[i] = product THEN prev
    ELSE Append(prev, product)

\* setCart's updater: [...prev, product]
Added(prev, product) == Append(prev, product)

\* handlePrev: the index scrollTo is called with, or the index as it is
PrevIndex(index) == IF index > 0 THEN index - 1 ELSE index

\* handleNext that stops at the last product, not at the last window
NextIndex_toLastProduct(index, length) ==
    IF index < length - 1 THEN index + 1 ELSE index

\* handleNext: the index scrollTo is called with, or the index as it is
NextIndex(index, length) ==
    IF index < length - VisibleCount THEN index + 1 ELSE index

\* addToCart(product), called by a product page
AddToCart ==
    /\ Len(cart) < MaxCart
    /\ \E product \in Catalog :
          /\ cart' = Added(cart, product)
          /\ added' = Append(added, product)
    /\ open' = TRUE
    /\ UNCHANGED << route, scrollIndex, products, clicks >>
    /\ UNCHANGED eaVars

\* setOpen(b), called by a consumer of the context
SetOpen ==
    /\ \E b \in BOOLEAN : open' = b
    /\ UNCHANGED << cart, route, added, scrollIndex, products, clicks >>
    /\ UNCHANGED eaVars

\* the sidebar's close button: onClose
SidebarClose ==
    /\ open
    /\ open' = FALSE
    /\ UNCHANGED << cart, route, added, scrollIndex, products, clicks >>
    /\ UNCHANGED eaVars

\* the sidebar's Checkout button, disabled while the cart is empty: onClose
\* and router.push
SidebarCheckout ==
    /\ open
    /\ Len(cart) # 0
    /\ open' = FALSE
    /\ route' = "/checkout"
    /\ UNCHANGED << cart, added, scrollIndex, products, clicks >>
    /\ UNCHANGED eaVars

\* a click on Previous
HandlePrev ==
    /\ Len(clicks) < MaxClicks
    /\ clicks' = Append(clicks, "Previous")
    /\ scrollIndex' = PrevIndex(scrollIndex)
    /\ UNCHANGED << cart, open, route, added, products >>
    /\ UNCHANGED eaVars

\* a click on Next
HandleNext ==
    /\ Len(clicks) < MaxClicks
    /\ clicks' = Append(clicks, "Next")
    /\ scrollIndex' = NextIndex(scrollIndex, products)
    /\ UNCHANGED << cart, open, route, added, products >>
    /\ UNCHANGED eaVars

NextShop ==
    \/ AddToCart
    \/ SetOpen
    \/ SidebarClose
    \/ SidebarCheckout
    \/ HandlePrev
    \/ HandleNext

SpecShop == InitShop /\ [][NextShop]_vars

\* ------------------------------------------------------------ cycles observed
\* the cycles completed so far and, once its response is in, the one in progress
Views ==
    { [status |-> history[i].status, json |-> history[i].json,
       trace |-> history[i].trace] : i \in 1..Len(history) }
    \cup (IF pc = "trade"
          THEN {[status |-> cur.status, json |-> cur.json, trace |-> cur.trace]}
          ELSE {})

HasOp(trace, ops) == \E i \in 1..Len(trace) : trace[i].op \in ops

Submits(trace) == {i \in 1..Len(trace) : IsSubmit(trace[i])}

Keys == {KeySymbol, KeyEntry, KeySl, KeyTp, KeyLot, KeyIsBuy}

LacksKey(json) == \E k \in Keys : StringFind(json, k, 0) < 0

ParseCalledAndFailed(trace) ==
    \E i \in 1..Len(trace) : trace[i] = EvParse(FALSE)

\* C1: a payload that lacks one of the six keys makes ParseSingleTrade return
\* false from whatever position it is started, and the cycle that received it
\* calls neither trade.Buy nor trade.Sell
C1_MissingKeyNoOrder ==
    \A c \in Views :
        LacksKey(c.json) =>
            /\ \A p \in 0..Len(c.json) : ~ParseSingleTrade(c.json, p).ok
            /\ ~HasOp(c.trace, {"Buy", "Sell"})
            /\ \A i \in 1..Len(c.trace) : c.trace[i] # EvParse(TRUE)

\* a cycle got status 200 and an object without lot_size, and its parse failed
C1_Witness ==
    \E i \in 1..Len(history) :
        /\ history[i].status = HTTP_OK
        /\ StringFind(history[i].json, KeyLot, 0) < 0
        /\ StringFind(history[i].json, KeyIsBuy, 0) >= 0
        /\ ParseCalledAndFailed(history[i].trace)

\* C2: a cycle whose WebRequest returned anything but 200 made that one call
\* and nothing else: no parse, no precision lookup, no order
C2_TransportFailureEndsCycle ==
    /\ \A i \in 1..Len(history) :
          history[i].status # HTTP_OK =>
              /\ history[i].trace = << EvWebRequest >>
              /\ history[i].placed = <<>>
    /\ pc = "trade" => cur.status = HTTP_OK

\* a cycle got status 404 with a body that would have parsed into an order
C2_Witness ==
    \E i \in 1..Len(history) :
        /\ history[i].status = 404
        /\ history[i].json = ValidBuy
        /\ ParseSingleTrade(history[i].json, 0).ok

\* C3: a cycle whose precision lookup names an instrument the venue does not
\* know calls neither trade.Buy nor trade.Sell
C3_UnknownInstrumentNoOrder ==
    \A c \in Views :
        (\E i \in 1..Len(c.trace) :
            /\ c.trace[i].op = "SymbolInfoInteger"
            /\ c.trace[i].symbol \notin DOMAIN VenueDigits)
        => ~HasOp(c.trace, {"Buy", "Sell"})

\* C4: every trade.Buy / trade.Sell call carries a strictly positive size
C4_SubmittedSizePositive ==
    \A c \in Views : \A i \in Submits(c.trace) : c.trace[i].lot > 0

\* C5: at most one OnTimer invocation is in progress at any time, the thread
\* is inside a cycle exactly when one is in progress, and an invocation
\* begins only from the state in which none is in progress
C5_CyclesNeverOverlap ==
    /\ [](active <= 1)
    /\ [](active = 1 <=> pc # "idle")
    /\ [][active' > active => (active = 0 /\ pc = "idle")]_vars

\* a cycle waits in its submission while a timer interval elapsed during it
C5_Witness ==
    /\ pc = "trade"
    /\ active = 1
    /\ \E k \in 1..Len(dropped) : dropped[k] = "trade"

\* C6: no Timer event is queued while a cycle runs, so a cycle that returns
\* leaves no Timer event behind: the intervals that elapsed during it are lost
C6_TriggerDroppedDuringCycle ==
    /\ [](active > 0 => ~timerPending)
    /\ [][(active > 0 /\ active' = 0) => ~timerPending']_vars
    /\ [](Len(history) + active + (IF timerPending THEN 1 ELSE 0)
            = elapsed - Len(dropped))

\* a cycle has returned after two intervals elapsed during it (one in its
\* fetch, one in its submission), and no Timer event is queued
C6_Witness ==
    /\ active = 0
    /\ Len(history) = 1
    /\ dropped = << "WebRequest", "trade" >>
    /\ ~timerPending

OpsOf(trace) == [i \in 1..Len(trace) |-> trace[i].op]

\* C7: a cycle makes exactly one WebRequest, its first call, and at most one
\* of trade.Buy / trade.Sell; after that call it only prints its line
C7_NoRetryWithinCycle ==
    /\ \A c \in Views :
          /\ {i \in 1..Len(c.trace) : c.trace[i].op = "WebRequest"} = {1}
          /\ Cardinality(Submits(c.trace)) <= 1
          /\ \A i \in Submits(c.trace) :
                \A k \in (i + 1)..Len(c.trace) : c.trace[k].op = "Print"
    /\ pc = "WebRequest" => cur.trace = << EvWebRequest >>

\* a cycle's order was rejected and the cycle ended with its printed line
C7_Witness ==
    \E i \in 1..Len(history) :
        /\ history[i].placed = << FALSE >>
        /\ OpsOf(history[i].trace) \in
              { << "WebRequest", "ParseSingleTrade", "SymbolInfoInteger",
                   "NormalizeDouble", side, "Print" >> : side \in {"Buy", "Sell"} }

\* the stages a cycle ran, with the outcome of each
StageOk(c, ev) ==
    CASE ev.op = "WebRequest" -> c.status = HTTP_OK
      [] ev.op = "ParseSingleTrade" -> ev.ok
      [] ev.op = "SymbolInfoInteger" -> ev.symbol \in DOMAIN VenueDigits
      [] OTHER -> TRUE

StageOrder ==
    << "WebRequest", "ParseSingleTrade", "SymbolInfoInteger",
       "NormalizeDouble", "Submit", "Print" >>

StageName(ev) == IF IsSubmit(ev) THEN "Submit" ELSE ev.op

\* C8: a cycle's calls are a prefix of fetch, parse, precision lookup,
\* normalize, submit; a call is made only if every call before it succeeded;
\* an order is submitted only after a parse that returned true
C8_StagesAreHardGates ==
    \A c \in Views :
        /\ \A i \in 1..Len(c.trace) : StageName(c.trace[i]) = StageOrder[i]
        /\ \A i \in 1..Len(c.trace) : \A k \in 1..(i - 1) : StageOk(c, c.trace[k])
        /\ \A i \in Submits(c.trace) :
              \E k \in 1..(i - 1) : c.trace[k] = EvParse(TRUE)

\* the submission of a completed cycle
SubmitOf(h) == h.trace[CHOOSE i \in Submits(h.trace) : TRUE]

\* C9: two consecutive cycles that got status 200 and the same body, one that
\* parses, each made one submission, and the two have the same arguments
C9_NoDeduplication ==
    \A i \in 1..(Len(history) - 1) :
        LET a == history[i]
            b == history[i + 1]
        IN  (/\ a.status = HTTP_OK
             /\ b.status = HTTP_OK
             /\ a.json = b.json
             /\ StringFind(a.json, <<"{">>, 0) >= 0
             /\ ParseSingleTrade(a.json, StringFind(a.json, <<"{">>, 0)).ok)
            => /\ Cardinality(Submits(a.trace)) = 1
               /\ Cardinality(Submits(b.trace)) = 1
               /\ SubmitOf(a) = SubmitOf(b)

\* two consecutive cycles got the valid buy payload and both were accepted
C9_Witness ==
    \E i \in 1..(Len(history) - 1) :
        /\ history[i].status = HTTP_OK
        /\ history[i + 1].status = HTTP_OK
        /\ history[i].json = ValidBuy
        /\ history[i + 1].json = ValidBuy
        /\ history[i].placed = << TRUE >>
        /\ history[i + 1].placed = << TRUE >>

\* C10: two cycles of one run that got the same status and body and the same
\* answer from the venue made the same calls with the same arguments and
\* printed the same line, whatever cycles ran before each of them
C10_NoStateAcrossCycles ==
    \A i \in 1..Len(history) : \A k \in 1..Len(history) :
        (/\ history[i].status = history[k].status
         /\ history[i].json = history[k].json
         /\ history[i].placed = history[k].placed)
        => history[i].trace = history[k].trace

\* the first and third cycle got the same sell payload and were both
\* accepted; between them a cycle failed in its transport
C10_Witness ==
    /\ Len(history) = 3
    /\ history[1].status = HTTP_OK
    /\ history[1].json = ValidSell
    /\ history[1].placed = << TRUE >>
    /\ history[2].status = 404
    /\ history[3].status = HTTP_OK
    /\ history[3].json = ValidSell
    /\ history[3].placed = << TRUE >>

\* the position OnTimer starts the parse at
StartOf(json) == StringFind(json, <<"{">>, 0)

\* the outputs of a parse that recovered the instruction ins
ParsedAs(ins) ==
    [ok |-> TRUE, symbol |-> ins.symbol, entry |-> ins.entry, sl |-> ins.sl,
     tp |-> ins.tp, lot |-> ins.lot, isBuy |-> ins.isBuy]

ParseCalledAndPassed(trace) ==
    \E i \in 1..Len(trace) : trace[i] = EvParse(TRUE)

\* C11: a payload written from a trade instruction, its six fields in the
\* declared order, parses, and the parsed instrument, entry, stop-loss,
\* take-profit, size and direction are the instruction's
C11_RoundTrip ==
    \A c \in Views : \A rt \in RoundTrips :
        c.json = rt[2] =>
            /\ ParseSingleTrade(c.json, StartOf(c.json)) = ParsedAs(rt[1])
            /\ c.status = HTTP_OK => ParseCalledAndPassed(c.trace)

\* a cycle parsed the spaced payload of a sell of 0.12345 XAUUSD with a
\* negative take-profit
C11_Witness ==
    \E i \in 1..Len(history) : \E rt \in RoundTrips :
        /\ history[i].status = HTTP_OK
        /\ history[i].json = rt[2]
        /\ rt[2] = BuildPayload(rt[1], Spaced)
        /\ rt[1].symbol = XAUUSD
        /\ rt[1].lot = Micro(12345)
        /\ rt[1].tp < 0
        /\ ~rt[1].isBuy
        /\ ParseCalledAndPassed(history[i].trace)

OccursOnce(json, k) ==
    /\ StringFind(json, k, 0) >= 0
    /\ StringFind(json, k, StringFind(json, k, 0) + 1) < 0

\* each key occurs once and some key stands before its predecessor
OutOfOrder(json) ==
    /\ \A i \in 1..6 : OccursOnce(json, KeySeq[i])
    /\ \E i \in 1..5 :
          StringFind(json, KeySeq[i + 1], 0) < StringFind(json, KeySeq[i], 0)

\* C12: a payload that holds each of the six keys once, in another order
\* than the declared one, fails to parse and no order is submitted
C12_OrderDependent ==
    \A c \in Views :
        OutOfOrder(c.json) =>
            /\ ~ParseSingleTrade(c.json, StartOf(c.json)).ok
            /\ ~HasOp(c.trace, {"Buy", "Sell"})
            /\ ~ParseCalledAndPassed(c.trace)

\* a cycle got the object with entry_price and symbol exchanged, all else in
\* place, and its parse failed
C12_Witness ==
    \E i \in 1..Len(history) :
        /\ history[i].status = HTTP_OK
        /\ history[i].json =
              Obj(<< BasePieces(TxtTrue)[2], BasePieces(TxtTrue)[1],
                     BasePieces(TxtTrue)[3], BasePieces(TxtTrue)[4],
                     BasePieces(TxtTrue)[5], BasePieces(TxtTrue)[6] >>)
        /\ OutOfOrder(history[i].json)
        /\ ParseCalledAndFailed(history[i].trace)

\* the position after the first occurrence of the k-th key
AfterKey(json, k) == StringFind(json, KeySeq[k], 0) + Len(KeySeq[k])

HasKey(json, k) == StringFind(json, KeySeq[k], 0) >= 0

\* the k-th key is there and its value has no end: for the instrument no
\* pair of quotes follows the key, for the other fields neither a comma nor
\* a closing brace does
Unisolated(json, k) ==
    /\ HasKey(json, k)
    /\ IF k = 1
       THEN \/ StringFind(json, <<"\"">>, AfterKey(json, k)) < 0
            \/ StringFind(json, <<"\"">>,
                          StringFind(json, <<"\"">>, AfterKey(json, k)) + 1) < 0
       ELSE /\ StringFind(json, <<",">>, AfterKey(json, k)) < 0
            /\ StringFind(json, <<"}">>, AfterKey(json, k)) < 0

ParseFailsNoOrder(c) ==
    /\ ~ParseSingleTrade(c.json, StartOf(c.json)).ok
    /\ ~HasOp(c.trace, {"Buy", "Sell"})
    /\ ~ParseCalledAndPassed(c.trace)

FieldText(json, k) ==
    StringTrimRight(StringTrimLeft(
        StringSubstr(json, AfterKey(json, k),
                     ValueEnd(json, AfterKey(json, k)) - AfterKey(json, k))))

\* decimal text: an optional sign, digits, at most one point, a digit at least
IsDecimalText(txt) ==
    /\ \E i \in 1..Len(txt) : IsDigit(txt[i])
    /\ \A i \in 1..Len(txt) :
          \/ IsDigit(txt[i])
          \/ txt[i] = "." /\ \A j \in 1..Len(txt) : txt[j] = "." => j = i
          \/ txt[i] = "-" /\ i = 1

\* the k-th field has an end and the text before it is no decimal number
NotANumber(json, k) ==
    /\ HasKey(json, k)
    /\ ValueEnd(json, AfterKey(json, k)) >= AfterKey(json, k)
    /\ ~IsDecimalText(FieldText(json, k))

\* C14: a payload in which the isolated text of entry_price, sl_price,
\* tp_price or lot_size is non-numeric, blank or empty fails to parse and the
\* cycle that received it submits no order
C14_NonNumericFieldFails ==
    \A c \in Views :
        (\E k \in 2..5 : NotANumber(c.json, k)) => ParseFailsNoOrder(c)

\* C15: with the is_buy key present and the five fields before it in order,
\* a direction text of false, TRUE, True, nothing, or anything else without
\* the lowercase token parses successfully as a sell, and the cycle that
\* received it with status 200 submits a sell and no buy
C15_OtherDirectionTextIsSell ==
    \A c \in Views : \A v \in SellTexts :
        c.json = WithValue(6, v) =>
            /\ HasKey(c.json, 6)
            /\ ParseSingleTrade(c.json, StartOf(c.json)).ok
            /\ ~ParseSingleTrade(c.json, StartOf(c.json)).isBuy
            /\ c.status = HTTP_OK =>
                  /\ ParseCalledAndPassed(c.trace)
                  /\ HasOp(c.trace, {"Sell"})
                  /\ ~HasOp(c.trace, {"Buy"})

\* a cycle got is_buy:TRUE with status 200 and submitted a sell
C15_Witness ==
    \E i \in 1..Len(history) :
        /\ history[i].status = HTTP_OK
        /\ history[i].json = WithValue(6, <<"T", "R", "U", "E">>)
        /\ ParseCalledAndPassed(history[i].trace)
        /\ HasOp(history[i].trace, {"Sell"})

\* the end of the direction text: the first closing brace after the key, or
\* the end of the payload when there is none
DirectionEnd(json) ==
    IF StringFind(json, <<"}">>, AfterKey(json, 6)) < 0 THEN Len(json)
    ELSE StringFind(json, <<"}">>, AfterKey(json, 6))

\* the text between the colon of the is_buy key and the closing brace
RawDirection(json) ==
    StringSubstr(json, AfterKey(json, 6), DirectionEnd(json) - AfterKey(json, 6))

\* C16: whenever a payload with one is_buy key parses, the parsed direction
\* is buy exactly when the text between the key's colon and the closing brace
\* contains the lowercase token true, and the order submitted is that one
C16_BuyIffRawTextHasTrue ==
    \A c \in Views :
        (OccursOnce(c.json, KeyIsBuy) /\ ParseSingleTrade(c.json, StartOf(c.json)).ok)
        => /\ ParseSingleTrade(c.json, StartOf(c.json)).isBuy
                = (StringFind(RawDirection(c.json), TrueToken, 0) >= 0)
           /\ HasOp(c.trace, {"Buy"})
                => StringFind(RawDirection(c.json), TrueToken, 0) >= 0
           /\ HasOp(c.trace, {"Sell"})
                => StringFind(RawDirection(c.json), TrueToken, 0) < 0

Abs(x) == IF x < 0 THEN 0 - x ELSE x

\* the smallest step of a price of d decimals, in units of the model
UnitOf(d) == IF d >= FracDigits THEN 1 ELSE Pow10(FracDigits - d)

\* r is v rounded to d decimals: a multiple of the step, of the sign of v, at
\* most half a step away
IsRoundingOf(r, v, d) ==
    /\ Abs(r) % UnitOf(d) = 0
    /\ 2 * Abs(r - v) <= UnitOf(d)
    /\ (v >= 0) => (r >= 0)
    /\ (v <= 0) => (r <= 0)

\* the decimals the venue has for an instrument, 0 when it does not know it
DigitsFor(symbol) ==
    IF symbol \in DOMAIN VenueDigits THEN VenueDigits[symbol] ELSE 0

\* the call ev is the one the parsed signal p asks for
FaithfulTo(ev, p) ==
    /\ ev.op = (IF p.isBuy THEN "Buy" ELSE "Sell")
    /\ ev.symbol = p.symbol
    /\ IsRoundingOf(ev.entry, p.entry, DigitsFor(p.symbol))
    /\ IsRoundingOf(ev.sl, p.sl, DigitsFor(p.symbol))
    /\ IsRoundingOf(ev.tp, p.tp, DigitsFor(p.symbol))
    /\ ev.magic = MagicNumber
    /\ ev.comment = TradeComment

\* C17: every Buy or Sell call of a cycle is the one its parsed signal asks
\* for: Buy for a buy signal and Sell for a sell signal, the parsed
\* instrument, the three parsed prices rounded to the instrument's decimals,
\* the tag MagicNumber and the comment TradeComment; a cycle that got a built
\* payload with status 200 makes that call for the instruction it was built from
C17_OrderFaithfulToSignal ==
    \A c \in Views :
        /\ \A k \in Submits(c.trace) :
              FaithfulTo(c.trace[k], ParseSingleTrade(c.json, StartOf(c.json)))
        /\ \A rt \in RoundTrips :
              (c.json = rt[2] /\ c.status = HTTP_OK) =>
                  /\ Cardinality(Submits(c.trace)) = 1
                  /\ \A k \in Submits(c.trace) : FaithfulTo(c.trace[k], rt[1])

\* a cycle got a sell of XAUUSD at 1.235 / 0.00005 / -2.34567 and called
\* Sell with 1.24 / 0 / -2.35
C17_Witness ==
    \E i \in 1..Len(history) : \E k \in Submits(history[i].trace) :
        /\ history[i].status = HTTP_OK
        /\ history[i].json =
              BuildPayload([symbol |-> XAUUSD, entry |-> Micro(123500),
                            sl |-> Micro(5), tp |-> Micro(0 - 234567),
                            lot |-> Micro(10000), isBuy |-> FALSE],
                           Compact)
        /\ history[i].trace[k].op = "Sell"
        /\ history[i].trace[k].entry = 124 * Pow10(FracDigits - 2)
        /\ history[i].trace[k].sl = 0
        /\ history[i].trace[k].tp = 0 - (235 * Pow10(FracDigits - 2))

\* C18: the size of every Buy or Sell call is the size the parser produced,
\* and for a built payload the size written in it, digit for digit
C18_SizePassesUnrounded ==
    \A c \in Views : \A k \in Submits(c.trace) :
        /\ c.trace[k].lot = ParseSingleTrade(c.json, StartOf(c.json)).lot
        /\ \A rt \in RoundTrips : c.json = rt[2] => c.trace[k].lot = rt[1].lot

\* a cycle got XAUUSD (2 decimals) with entry 1.23456 and size 0.12345, and
\* called with entry 1.23 and size 0.12345
C18_Witness ==
    \E i \in 1..Len(history) : \E k \in Submits(history[i].trace) :
        /\ history[i].status = HTTP_OK
        /\ history[i].trace[k].symbol = XAUUSD
        /\ ParseSingleTrade(history[i].json, StartOf(history[i].json)).entry
              = 123456 * Pow10(FracDigits - 5)
        /\ history[i].trace[k].entry = 123 * Pow10(FracDigits - 2)
        /\ history[i].trace[k].lot = 12345 * Pow10(FracDigits - 5)
        /\ NormalizeDouble(history[i].trace[k].lot, 2) # history[i].trace[k].lot

\* the precisions the cycle rounded at
DigitsUsed(trace) ==
    { trace[j].digits : j \in { i \in 1..Len(trace) : trace[i].op = "NormalizeDouble" } }

RawEntry(c) == ParseSingleTrade(c.json, StartOf(c.json)).entry

\* C19: rounding the entry, stop-loss and take-profit a cycle submitted once
\* more at the precision the cycle used gives them back unchanged, and they
\* are roundings of the parsed prices in the first place
C19_NormalizeIdempotent ==
    \A c \in Views : \A k \in Submits(c.trace) : \A d \in DigitsUsed(c.trace) :
        /\ NormalizeDouble(c.trace[k].entry, d) = c.trace[k].entry
        /\ NormalizeDouble(c.trace[k].sl, d) = c.trace[k].sl
        /\ NormalizeDouble(c.trace[k].tp, d) = c.trace[k].tp
        /\ IsRoundingOf(c.trace[k].entry, RawEntry(c), d)

\* a cycle rounded 1.235 at 2 decimals to 1.24 and -1.235 to -1.24
C19_Witness ==
    \E i \in 1..Len(history) : \E k \in Submits(history[i].trace) :
        /\ history[i].status = HTTP_OK
        /\ DigitsUsed(history[i].trace) = {2}
        /\ RawEntry(history[i]) = Micro(123500)
        /\ history[i].trace[k].entry = Micro(124000)
        /\ history[i].trace[k].sl = Micro(0 - 124000)

\* C20: two submissions of completed cycles whose raw entry price and
\* precision agree have the same entry price, whatever cycle made them, and
\* raw entry 1.23456 at precision 2 is always submitted as 1.23
C20_OneRoundingRule ==
    \A raw \in { [i \in 1..Len(history) |-> RawEntry(history[i])] } :
        \A i \in 1..Len(history) : \A k \in Submits(history[i].trace) :
            /\ \A j \in 1..Len(history) : \A l \in Submits(history[j].trace) :
                  (/\ raw[i] = raw[j]
                   /\ DigitsUsed(history[i].trace) = DigitsUsed(history[j].trace))
                  => history[i].trace[k].entry = history[j].trace[l].entry
            /\ (raw[i] = Micro(123456) /\ DigitsUsed(history[i].trace) = {2})
                  => history[i].trace[k].entry = Micro(123000)

\* two cycles got entry 1.23456 for an instrument of 2 decimals and both
\* submitted 1.23
C20_Witness ==
    \E i \in 1..Len(history) : \E j \in 1..Len(history) :
        /\ i < j
        /\ \A h \in {history[i], history[j]} :
              /\ h.status = HTTP_OK
              /\ RawEntry(h) = Micro(123456)
              /\ DigitsUsed(h.trace) = {2}
              /\ \E k \in Submits(h.trace) : h.trace[k].entry = Micro(123000)

\* a completed cycle that placed no order: the transport failed, the payload
\* did not parse, or the venue refused the request
FailedCycle(h) == h.placed # << TRUE >>

\* the calls of a first cycle that gets ValidBuy or ValidSell with status
\* 200, up to its submission
FirstCycleCalls(json) ==
    << EvWebRequest, EvParse(TRUE), EvDigits(EURUSD, DigitsFor(EURUSD)),
       EvNormalize(DigitsFor(EURUSD)),
       [op |-> IF json = ValidBuy THEN "Buy" ELSE "Sell",
        lot |-> Micro(10000), symbol |-> EURUSD, entry |-> Micro(123456),
        sl |-> Micro(120000), tp |-> Micro(130000), comment |-> TradeComment,
        magic |-> MagicNumber] >>

\* C21: while the program runs its timer stays armed and its thread is free
\* between cycles, whatever cycles failed before; and a cycle that gets a valid
\* payload with status 200 after nothing but failed cycles makes the calls of
\* a first cycle, its submission included
C21_FailuresNeverStopPolling ==
    /\ phase = "running" => timerArmed
    /\ (phase = "running" /\ pc = "idle") => (active = 0 /\ cur = NoCycle)
    /\ \A i \in 1..Len(history) :
          (/\ \A j \in 1..(i - 1) : FailedCycle(history[j])
           /\ history[i].status = HTTP_OK
           /\ history[i].json \in {ValidBuy, ValidSell})
          => /\ Len(history[i].trace) >= 5
             /\ SubSeq(history[i].trace, 1, 5) = FirstCycleCalls(history[i].json)

\* a transport failure, then a parse failure, then a buy that was placed,
\* and the timer is still armed
C21_Witness ==
    /\ Len(history) = 3
    /\ history[1].status # HTTP_OK
    /\ ParseCalledAndFailed(history[2].trace)
    /\ history[3].status = HTTP_OK
    /\ history[3].json = ValidBuy
    /\ HasOp(history[3].trace, {"Buy"})
    /\ history[3].placed = << TRUE >>
    /\ timerArmed

\* the lines a cycle printed
PrintsOf(trace) == { k \in 1..Len(trace) : trace[k].op = "Print" }

\* C22: every completed cycle printed exactly one line, and a cycle that
\* called Buy or Sell printed the signal it applied with the outcome
C22_OneLogLinePerCycle ==
    \A i \in 1..Len(history) :
        /\ Cardinality(PrintsOf(history[i].trace)) = 1
        /\ HasOp(history[i].trace, {"Buy", "Sell"}) =>
              \E k \in PrintsOf(history[i].trace) :
                  \E placed \in BOOLEAN :
                      /\ history[i].placed = << placed >>
                      /\ history[i].trace[k].placed = placed

\* once stopped, the timer is disarmed and no handler is running
StoppedAtRest ==
    phase = "stopped" =>
        (~timerArmed /\ pc = "idle" /\ active = 0 /\ cur = NoCycle)

\* after the stop no interval elapses, no cycle starts and none is recorded
NothingAfterStop ==
    phase = "stopped" =>
        (/\ elapsed' = elapsed
         /\ pc' = "idle"
         /\ history' = history
         /\ journal' = journal
         /\ timerPending' = timerPending)

\* the stop is taken between cycles and touches no cycle
StopBetweenCycles ==
    (phase = "running" /\ phase' = "stopped") =>
        (/\ pc = "idle"
         /\ ~timerArmed'
         /\ history' = history
         /\ Last(journal') = [op |-> "Print", text |-> "SimpleML_EA stopped."])

\* C23: OnDeinit disarms the timer; it is handled only when no cycle is in
\* progress, so a cycle under way ends first; and once it has been handled no
\* timer interval elapses, no cycle starts and no call is made
C23_ShutdownDisarmsTimer ==
    []StoppedAtRest /\ [][NothingAfterStop /\ StopBetweenCycles]_vars

\* stopped after a placed order, with a Timer event still queued that is
\* never handled and intervals left that never elapse
C23_Witness ==
    /\ phase = "stopped"
    /\ timerPending
    /\ elapsed < limit
    /\ Len(history) >= 1
    /\ Last(history).placed = << TRUE >>

\* C24: in a run whose terminal has no connection to the trade server the
\* timer is never armed, no interval elapses, no cycle runs and no order is
\* submitted
C24_NoConnectionNoTimer ==
    ~venueUp =>
        /\ ~timerArmed
        /\ elapsed = 0
        /\ pc = "idle"
        /\ history = <<>>
        /\ ~HasOp(cur.trace, {"Buy", "Sell"})

\* the first object of a payload: from its first opening brace to the first
\* closing brace after it, or to the end when there is none
FirstObject(json) ==
    IF StringFind(json, <<"}">>, StartOf(json)) < 0
    THEN StringSubstr(json, StartOf(json), Len(json) - StartOf(json))
    ELSE StringSubstr(json, StartOf(json),
                      StringFind(json, <<"}">>, StartOf(json)) + 1 - StartOf(json))

\* C25: a payload that parses gives the signal its first object gives when
\* parsed alone, and the order submitted for it carries that object's
\* instrument
C25_FieldsFromFirstObject ==
    \A c \in Views :
        (StartOf(c.json) >= 0 /\ ParseSingleTrade(c.json, StartOf(c.json)).ok)
        => /\ ParseSingleTrade(FirstObject(c.json), 0)
                 = ParseSingleTrade(c.json, StartOf(c.json))
           /\ \A k \in Submits(c.trace) :
                 /\ ParseSingleTrade(FirstObject(c.json), 0).ok
                 /\ c.trace[k].symbol = ParseSingleTrade(FirstObject(c.json), 0).symbol

\* C26: a cycle that got status 200 and a payload with an opening brace that
\* ParseSingleTrade accepts calls Buy or Sell exactly once, whatever the
\* instrument's digits, the size and the prices are
C26_ParsedSignalAlwaysSubmitted ==
    \A c \in Views :
        (/\ c.status = HTTP_OK
         /\ StartOf(c.json) >= 0
         /\ ParseSingleTrade(c.json, StartOf(c.json)).ok)
        => Cardinality(Submits(c.trace)) = 1

\* a cycle submitted an order for an instrument the venue does not know, of
\* a size that is not positive, its entry rounded to 0 decimals
C26_Witness ==
    \E i \in 1..Len(history) : \E k \in Submits(history[i].trace) :
        /\ history[i].status = HTTP_OK
        /\ history[i].trace[k].symbol = NOSYM
        /\ history[i].trace[k].lot <= 0
        /\ history[i].trace[k].entry = Micro(100000)

\* the text between the first two double quotes after the symbol key
QuotedSymbol(json) ==
    StringSubstr(json,
                 StringFind(json, <<"\"">>, AfterKey(json, 1)) + 1,
                 StringFind(json, <<"\"">>,
                            StringFind(json, <<"\"">>, AfterKey(json, 1)) + 1)
                   - (StringFind(json, <<"\"">>, AfterKey(json, 1)) + 1))

\* C27: for the base object with any instrument text, the parsed instrument
\* is that text character for character and the order carries it; with no
\* text between the quotes the parse fails and nothing is submitted; and no
\* order of any cycle has an empty instrument
C27_InstrumentVerbatimNeverEmpty ==
    \A c \in Views :
        /\ \A k \in Submits(c.trace) : c.trace[k].symbol # <<>>
        /\ \A x \in SymbolTexts : \A lead \in {<<>>, <<" ">>} :
              c.json = WithValue(1, lead \o Quoted(x)) =>
                  /\ QuotedSymbol(c.json) = x
                  /\ IF x = <<>> THEN ParseFailsNoOrder(c)
                     ELSE /\ ParseSingleTrade(c.json, StartOf(c.json)).ok
                          /\ ParseSingleTrade(c.json, StartOf(c.json)).symbol = x
                          /\ \A k \in Submits(c.trace) : c.trace[k].symbol = x
                          /\ c.status = HTTP_OK => Submits(c.trace) # {}

\* one cycle got "symbol":"" with status 200 and its parse failed
C27_Witness ==
    \E i \in 1..Len(history) :
        /\ history[i].status = HTTP_OK
        /\ history[i].json = WithValue(1, Quoted(<<>>))
        /\ QuotedSymbol(history[i].json) = <<>>
        /\ ParseCalledAndFailed(history[i].trace)

\* the Buy and Sell calls made so far, each named by its cycle and its place
AllSubmits ==
    UNION { { << i, k >> : k \in Submits(history[i].trace) } : i \in 1..Len(history) }
    \cup { << 0, k >> : k \in Submits(cur.trace) }

\* the cycles started so far
CyclesStarted == Len(history) + (IF pc = "idle" THEN 0 ELSE 1)

\* there are no more submissions than cycles, and no more cycles than timer
\* intervals that produced a Timer event
SubmissionsWithinTimerCycles ==
    /\ Cardinality(AllSubmits) <= CyclesStarted
    /\ CyclesStarted <= elapsed - Len(dropped)

\* a step that takes a market tick leaves the program as it was
TickChangesNothing ==
    ticks' # ticks =>
        UNCHANGED << phase, m_magic, timerArmed, timerPending, active, pc, cur,
                     history, journal, elapsed, dropped >>

\* C28: a market tick makes no call and changes nothing of the program's
\* state, and at every moment the Buy and Sell calls made are no more than the
\* cycles started, which are no more than the Timer events produced
C28_OnlyTimerDrivesPipeline ==
    []SubmissionsWithinTimerCycles /\ [][TickChangesNothing]_vars

\* a tick was taken and every one of two cycles submitted an order
C28_Witness ==
    /\ ticks >= 1
    /\ Len(history) = 2
    /\ Cardinality(AllSubmits) = 2
    /\ pc = "idle"

\* closing the sidebar or going to the checkout leaves the cart as it is
ClosingKeepsCart ==
    ((open /\ ~open') \/ route' # route) => (cart' = cart /\ added' = added)

\* a call of addToCart leaves the sidebar open
AddingOpensSidebar == added' # added => open'

\* C29: the cart is the sequence of the products passed to addToCart, in call
\* order and with duplicates; addToCart leaves the sidebar open; closing the
\* sidebar and starting the checkout leave the cart unchanged
C29_CartAppendOnly ==
    [](cart = added) /\ [][AddingOpensSidebar /\ ClosingKeepsCart]_vars

\* the same product added twice and another after it, the sidebar closed by
\* the checkout
C29_Witness ==
    /\ Len(cart) = 3
    /\ cart[1] = cart[2]
    /\ cart[3] # cart[1]
    /\ cart = added
    /\ ~open
    /\ route = "/checkout"

MaxOf(a, b) == IF a > b THEN a ELSE b

\* the index stays within the windows of three products
IndexInRange ==
    /\ 0 <= scrollIndex
    /\ scrollIndex <= MaxOf(0, products - 3)
    /\ products <= 3 => scrollIndex = 0

\* a click at either end leaves the index where it is, any other click moves
\* it by one
ClickMovesByOne ==
    clicks' # clicks =>
        IF Last(clicks') = "Previous"
        THEN scrollIndex' = (IF scrollIndex = 0 THEN 0 ELSE scrollIndex - 1)
        ELSE scrollIndex' = (IF scrollIndex >= MaxOf(0, products - 3)
                             THEN scrollIndex ELSE scrollIndex + 1)

\* C30: after any clicks on Previous and Next the index is between 0 and
\* max(0, products.length - 3), it is 0 with three products or fewer, and
\* Previous at 0 and Next at the last position leave it unchanged
C30_ScrollIndexInRange ==
    []IndexInRange /\ [][ClickMovesByOne]_vars

\* five products, three clicks on Next, the third at the last position
C30_Witness ==
    /\ products = 5
    /\ clicks = << "Next", "Next", "Next" >>
    /\ scrollIndex = 2

=============================================================================
